---- MODULE Spec2Model ----
(***************************************************************************)
(* The two utility scripts of local-app/script as state machines.          *)
(*                                                                         *)
(*   dbprint.py   - the Database Dumper: connect, list the tables of       *)
(*                  sqlite_master, print every table's rows, close.        *)
(*   linecount.py - the Line Counter: os.walk a tree, count the files      *)
(*                  ending with ".go" and their lines, print two totals.   *)
(*                                                                         *)
(* A behaviour runs one utility (variable util).  SpecDumper and           *)
(* SpecCounter run it once, SpecTwice runs it a second time on the inputs  *)
(* the first run left behind.                                              *)
(***************************************************************************)
EXTENDS Integers, Sequences, FiniteSets, TLC

VARIABLES
    util,           \* which script the process runs: "dumper" or "counter"
    run,            \* 1 during the first run, 2 during the second
    first,          \* what the first run left on stdout and how it ended
    pc,             \* position of the running script
    out,            \* lines written to standard output, in order
    err,            \* the uncaught exception that ended the run, or "none"
    \* ---- dbprint.py
    dbfile,         \* ./data/mindnoscape.db: "valid" (an SQLite database),
                    \* "missing", "notadb" (some other file) or "unopenable"
    catalog,        \* rows of sqlite_master, in catalog order
    rows,           \* table name -> rows in full-scan order
    dropped,        \* tables an external writer has dropped since
    conn,           \* "none", "open" or "closed"
    tables,         \* result of the catalog query: a list of 1-tuples
    i,              \* index of `table` in the loop of line 14 or line 18
    fetched,        \* `rows` of line 21
    j,              \* index of `row` in the loop of line 23
    \* ---- linecount.py
    tree,           \* the directory tree under the traversal root
    stack,          \* directories os.walk has still to list
    root,           \* `root` of line 7: the directory listed last
    files,          \* `files` of line 7, the part the loop of line 8 has left
    go_files_count, \* line 5
    total_lines,    \* line 4
    handles,        \* files currently open
    result          \* the pair count_go_lines returned, or <<>>

vars == <<util, run, first, pc, out, err,
          dbfile, catalog, rows, dropped, conn, tables, i, fetched, j,
          tree, stack, root, files, go_files_count, total_lines, handles, result>>

procVars    == <<pc, out, err>>
dumperIn    == <<dbfile, catalog, rows>>
dumperVars  == <<conn, tables, i, fetched, j>>
counterVars == <<stack, root, files, go_files_count, total_lines, handles, result>>

(***************************************************************************)
(* Bounds of the model.                                                    *)
(***************************************************************************)
MaxEntities == 3    \* rows of sqlite_master
MaxDrops    == 1    \* tables the external writer drops during a run
MaxNodes    == 3    \* files and directories under the traversal root

SeqsUpTo(S, n) == UNION {[1..m -> S] : m \in 0..n}

Last(s) == s[Len(s)]

(***************************************************************************)
(* Lines of standard output.  Every line is a record of the same shape:    *)
(* what the line is, the table name in it, the value in it.                *)
(***************************************************************************)
Line(kind, name, val) == [kind |-> kind, name |-> name, val |-> val]

TablesHeader       == Line("tables", <<>>, 0)    \* "Tables in the database:"
NameLine(n)        == Line("name", n, 0)         \* the table name alone
BlankLine          == Line("blank", <<>>, 0)     \* the "\n" opening line 19's text
ContentHeader(n)   == Line("content", n, 0)      \* "Content of table '<n>':"
RowLine(r)         == Line("row", <<>>, r)       \* the row's tuple
TotalFilesLine(n)  == Line("files", <<>>, n)     \* "Total Go files: <n>"
TotalLinesLine(n)  == Line("lines", <<>>, n)     \* "Total lines of Go code: <n>"

(***************************************************************************)
(* dbprint.py: the database.                                               *)
(*                                                                         *)
(* A name is the sequence of tokens SQLite's lexer reads from its text:    *)
(* the table created as "a b" is <<"a", "b">>, the one created as "order"  *)
(* is <<"order">>, a reserved word.                                        *)
(***************************************************************************)
TableNames == {<<"a">>, <<"a", "b">>, <<"order">>}

Keywords == {"order"}

RowValues == {1, 2}

Entity(type, name) == [type |-> type, name |-> name]

Entities ==
    {Entity("table", n) : n \in TableNames}
        \cup {Entity("index", <<"i">>), Entity("view", <<"v">>)}

Catalogs ==
    {c \in SeqsUpTo(Entities, MaxEntities) :
        \A x, y \in DOMAIN c : x # y => c[x].name # c[y].name}

TablesOf(cat) == {cat[x].name : x \in {y \in DOMAIN cat : cat[y].type = "table"}}

\* a table holds each of its rows once, in any order
RowLists ==
    {s \in SeqsUpTo(RowValues, Cardinality(RowValues)) :
        \A x, y \in DOMAIN s : x # y => s[x] # s[y]}

NoRows == [n \in TableNames |-> <<>>]

\* the rows of the tables of cat; a name that is no table of cat has none
Contents(cat) ==
    {[n \in TableNames |-> IF n \in TablesOf(cat) THEN f[n] ELSE <<>>] :
        f \in [TablesOf(cat) -> RowLists]}

\* sqlite_master as a statement sees it now
LiveCatalog ==
    SelectSeq(catalog, LAMBDA e : ~(e.type = "table" /\ e.name \in dropped))

\* the catalog query without its WHERE type='table'
CatalogQueryAnyType(cat) == [x \in 1..Len(cat) |-> <<cat[x].name>>]

\* line 10-11: SELECT name FROM sqlite_master WHERE type='table', fetchall()
CatalogQuery(cat) ==
    LET hit == SelectSeq(cat, LAMBDA e : e.type = "table")
    IN  [x \in 1..Len(hit) |-> <<hit[x].name>>]

\* line 20: f"SELECT * FROM {table[0]}"
SelectText(name) == <<"SELECT", "*", "FROM">> \o name

\* SQLite reading "SELECT * FROM <tokens>": one identifier is the table, two
\* are the table and its alias (AS is optional), a reserved word or anything
\* longer is a syntax error.
ParseSelect(text) ==
    LET src == SubSeq(text, 4, Len(text))
    IN  IF /\ Len(src) \in {1, 2}
           /\ \A x \in DOMAIN src : src[x] \notin Keywords
        THEN [ok |-> TRUE, table |-> <<src[1]>>]
        ELSE [ok |-> FALSE, table |-> <<>>]

\* line 20-21: cursor.execute(text), cursor.fetchall().  The identifier must
\* name a table that exists now (none of the names here reads as the view or
\* the index); the result is that table's rows in full-scan order.
ExecuteSelect(text) ==
    LET q == ParseSelect(text)
    IN  IF q.ok /\ q.table \in TablesOf(LiveCatalog)
        THEN [ok |-> TRUE, rows |-> rows[q.table]]
        ELSE [ok |-> FALSE, rows |-> <<>>]

(***************************************************************************)
(* dbprint.py: the script, one action per statement.                       *)
(***************************************************************************)
Raise(e) == pc' = "failed" /\ err' = e

\* line 4: the path cannot be opened (no ./data directory, no permission), or
\* it is opened; where no file exists SQLite creates an empty database
Connect ==
    /\ util = "dumper" /\ pc = "connect"
    /\ IF dbfile = "unopenable"
       THEN Raise("connect") /\ UNCHANGED <<conn, dbfile>>
       ELSE /\ conn' = "open"
            /\ dbfile' = (IF dbfile = "missing" THEN "valid" ELSE dbfile)
            /\ pc' = "cursor"
            /\ UNCHANGED err
    /\ UNCHANGED <<util, run, first, out, catalog, rows, dropped, tables, i, fetched, j,
                   tree, counterVars>>

\* line 7
CreateCursor ==
    /\ util = "dumper" /\ pc = "cursor"
    /\ pc' = "catalog"
    /\ UNCHANGED <<util, run, first, out, err, dumperIn, dropped, dumperVars,
                   tree, counterVars>>

\* line 10-11
QueryCatalog ==
    /\ util = "dumper" /\ pc = "catalog"
    /\ IF dbfile = "notadb"
       THEN Raise("query") /\ UNCHANGED tables
       ELSE tables' = CatalogQuery(LiveCatalog) /\ pc' = "header" /\ UNCHANGED err
    /\ UNCHANGED <<util, run, first, out, dumperIn, dropped, conn, i, fetched, j,
                   tree, counterVars>>

\* line 13
PrintTablesHeader ==
    /\ util = "dumper" /\ pc = "header"
    /\ out' = Append(out, TablesHeader)
    /\ i' = 1
    /\ pc' = "names"
    /\ UNCHANGED <<util, run, first, err, dumperIn, dropped, conn, tables, fetched, j,
                   tree, counterVars>>

\* line 14-15
PrintName ==
    /\ util = "dumper" /\ pc = "names"
    /\ IF i <= Len(tables)
       THEN out' = Append(out, NameLine(tables[i][1])) /\ i' = i + 1 /\ UNCHANGED pc
       ELSE i' = 1 /\ pc' = "section" /\ UNCHANGED out
    /\ UNCHANGED <<util, run, first, err, dumperIn, dropped, conn, tables, fetched, j,
                   tree, counterVars>>

\* line 18-19
PrintContentHeader ==
    /\ util = "dumper" /\ pc = "section"
    /\ IF i <= Len(tables)
       THEN out' = out \o <<BlankLine, ContentHeader(tables[i][1])>> /\ pc' = "select"
       ELSE pc' = "close" /\ UNCHANGED out
    /\ UNCHANGED <<util, run, first, err, dumperIn, dropped, conn, tables, i, fetched, j,
                   tree, counterVars>>

\* line 20-21
SelectAll ==
    /\ util = "dumper" /\ pc = "select"
    /\ LET res == ExecuteSelect(SelectText(tables[i][1]))
       IN  IF res.ok
           THEN fetched' = res.rows /\ j' = 1 /\ pc' = "rows" /\ UNCHANGED err
           ELSE Raise("query") /\ UNCHANGED <<fetched, j>>
    /\ UNCHANGED <<util, run, first, out, dumperIn, dropped, conn, tables, i,
                   tree, counterVars>>

\* line 23-24
PrintRow ==
    /\ util = "dumper" /\ pc = "rows"
    /\ IF j <= Len(fetched)
       THEN out' = Append(out, RowLine(fetched[j])) /\ j' = j + 1 /\ UNCHANGED <<pc, i>>
       ELSE i' = i + 1 /\ pc' = "section" /\ UNCHANGED <<out, j>>
    /\ UNCHANGED <<util, run, first, err, dumperIn, dropped, conn, tables, fetched,
                   tree, counterVars>>

\* line 27
Close ==
    /\ util = "dumper" /\ pc = "close"
    /\ conn' = "closed"
    /\ pc' = "done"
    /\ UNCHANGED <<util, run, first, out, err, dumperIn, dropped, tables, i, fetched, j,
                   tree, counterVars>>

\* Another process drops a table after the catalog query has listed it.  (A
\* drop before the catalog query is a run on the smaller database.)
ExternalDrop ==
    /\ util = "dumper"
    /\ pc \in {"header", "names", "section", "select", "rows"}
    /\ Cardinality(dropped) < MaxDrops
    /\ \E t \in TablesOf(LiveCatalog) : dropped' = dropped \cup {t}
    /\ UNCHANGED <<util, run, first, procVars, dumperIn, dumperVars, tree, counterVars>>

DumperStep ==
    \/ Connect
    \/ CreateCursor
    \/ QueryCatalog
    \/ PrintTablesHeader
    \/ PrintName
    \/ PrintContentHeader
    \/ SelectAll
    \/ PrintRow
    \/ Close

(***************************************************************************)
(* linecount.py: the directory tree.                                       *)
(*                                                                         *)
(* tree[n] is the n-th entry under the traversal root: the directory it    *)
(* is in (0 is the root itself, otherwise an earlier entry), whether it is *)
(* a directory or a file, its name and bytes as sequences of characters,   *)
(* and whether it can be listed (a directory) or opened (a file).  The     *)
(* entries of one directory are enumerated in the order of their numbers,  *)
(* and the entries are numbered directory by directory (every tree has     *)
(* such a numbering, whatever the order within its directories).           *)
(***************************************************************************)
Node(parent, kind, name, mode, content) ==
    [parent |-> parent, kind |-> kind, name |-> name, mode |-> mode,
     content |-> content]

\* "LF" and "CR" are the line terminators, "BAD" a byte that is not UTF-8
FileEntries ==
    {Node(0, "file", <<"a", ".", "g", "o">>, "r", c) :
        c \in {<<>>, <<"x">>, <<"x", "CR", "LF", "CR">>, <<"x", "LF", "BAD">>}}
        \cup {Node(0, "file", <<"a", ".", "g", "o">>, "-", <<"x">>),
              Node(0, "file", <<".", "g", "o">>, "r", <<"x", "LF", "x">>),
              Node(0, "file", <<".", "g", "o">>, "-", <<"x">>),
              Node(0, "file", <<"x", "g", "o">>, "-", <<"x", "LF">>)}

DirEntries ==
    {Node(0, "dir", <<"d">>, "r", <<>>),
     Node(0, "dir", <<"d">>, "-", <<>>),
     Node(0, "dir", <<"p", ".", "g", "o">>, "r", <<>>)}

DirsOf(t) == {0} \cup {n \in DOMAIN t : t[n].kind = "dir"}

\* entry e can be added to directory p of tree t as the next entry
Fits(t, p, e) ==
    /\ p \in DirsOf(t)
    /\ t # <<>> => p >= Last(t).parent
    /\ \A n \in DOMAIN t : t[n].parent = p => t[n].name # e.name

Grow(t, p, e) == Append(t, [e EXCEPT !.parent = p])

RECURSIVE TreesOfSize(_)
TreesOfSize(n) ==
    IF n = 0
    THEN {<<>>}
    ELSE {Grow(x[1], x[2], x[3]) :
             x \in {y \in TreesOfSize(n - 1) \X (0..(n - 1)) \X (FileEntries \cup DirEntries) :
                       Fits(y[1], y[2], y[3])}}

\* t is a tree of at most MaxNodes entries
IsTree(t) ==
    \E n \in 0..MaxNodes :
        IF n = 0
        THEN t = <<>>
        ELSE \E s \in TreesOfSize(n - 1), p \in 0..(n - 1), e \in FileEntries \cup DirEntries :
                 Fits(s, p, e) /\ t = Grow(s, p, e)

\* os.scandir(top) succeeds; the traversal root is the working directory
Listable(top) == top = 0 \/ tree[top].mode = "r"

ChildrenOf(top, kind) ==
    SelectSeq([n \in 1..Len(tree) |-> n],
              LAMBDA n : tree[n].parent = top /\ tree[n].kind = kind)

\* `files` of line 7: the names of the entries of top that are no directory
FileNamesOf(top) ==
    LET ns == ChildrenOf(top, "file") IN [x \in 1..Len(ns) |-> tree[ns[x]].name]

\* os.path.join(root, file): the entry the path names
PathJoin(dir, name) ==
    CHOOSE n \in DOMAIN tree : tree[n].parent = dir /\ tree[n].name = name

\* line 9: file.endswith('.go')
EndsWith(name, suffix) ==
    /\ Len(name) >= Len(suffix)
    /\ SubSeq(name, Len(name) - Len(suffix) + 1, Len(name)) = suffix

GoSuffix == <<".", "g", "o">>

\* decoding the bytes as UTF-8 succeeds
Decodable(content) == \A x \in DOMAIN content : content[x] # "BAD"

\* line 13: f.readlines() in text mode: "\n", "\r" and "\r\n" each end a line
\* and read as "\n"; a last line without terminator is a line too
RECURSIVE SplitLines(_, _)
SplitLines(content, line) ==
    IF content = <<>>
    THEN IF line = <<>> THEN <<>> ELSE <<line>>
    ELSE IF content[1] = "LF"
    THEN <<Append(line, "LF")>> \o SplitLines(Tail(content), <<>>)
    ELSE IF content[1] = "CR"
    THEN IF Len(content) >= 2 /\ content[2] = "LF"
         THEN <<Append(line, "LF")>> \o SplitLines(SubSeq(content, 3, Len(content)), <<>>)
         ELSE <<Append(line, "LF")>> \o SplitLines(Tail(content), <<>>)
    ELSE SplitLines(Tail(content), Append(line, content[1]))

ReadLinesOf(content) == SplitLines(content, <<>>)

(***************************************************************************)
(* linecount.py: the script.  os.walk is the generator of the standard     *)
(* library called with its defaults: top-down, a directory that cannot be  *)
(* listed is passed over without an error (onerror=None).                  *)
(***************************************************************************)

\* line 19, line 4-5
StartCount ==
    /\ util = "counter" /\ pc = "start"
    /\ total_lines' = 0
    /\ go_files_count' = 0
    /\ stack' = <<0>>
    /\ pc' = "walk"
    /\ UNCHANGED <<util, run, first, out, err, dumperIn, dropped, dumperVars,
                   tree, root, files, handles, result>>

\* line 7: the next (root, _, files) of os.walk, or its end
WalkNext ==
    /\ util = "counter" /\ pc = "walk"
    /\ IF stack = <<>>
       THEN pc' = "return" /\ UNCHANGED <<stack, root, files>>
       ELSE IF ~Listable(Head(stack))
       THEN stack' = Tail(stack) /\ UNCHANGED <<pc, root, files>>
       ELSE /\ root' = Head(stack)
            /\ files' = FileNamesOf(Head(stack))
            /\ stack' = ChildrenOf(Head(stack), "dir") \o Tail(stack)
            /\ pc' = "file"
    /\ UNCHANGED <<util, run, first, out, err, dumperIn, dropped, dumperVars,
                   tree, go_files_count, total_lines, handles, result>>

\* line 8-11
NextFile ==
    /\ util = "counter" /\ pc = "file"
    /\ IF files = <<>>
       THEN pc' = "walk" /\ UNCHANGED <<files, go_files_count>>
       ELSE IF EndsWith(Head(files), GoSuffix)
       THEN go_files_count' = go_files_count + 1 /\ pc' = "open" /\ UNCHANGED files
       ELSE files' = Tail(files) /\ UNCHANGED <<pc, go_files_count>>
    /\ UNCHANGED <<util, run, first, out, err, dumperIn, dropped, dumperVars,
                   tree, stack, root, total_lines, handles, result>>

\* line 12
OpenFile ==
    /\ util = "counter" /\ pc = "open"
    /\ LET f == PathJoin(root, Head(files))
       IN  IF tree[f].mode = "r"
           THEN handles' = handles \cup {f} /\ pc' = "read" /\ UNCHANGED err
           ELSE Raise("open") /\ UNCHANGED handles
    /\ UNCHANGED <<util, run, first, out, dumperIn, dropped, dumperVars,
                   tree, stack, root, files, go_files_count, total_lines, result>>

\* the read with f closed by hand after line 14: an exception skips the close
ReadLinesNoWith ==
    /\ util = "counter" /\ pc = "read"
    /\ LET f == PathJoin(root, Head(files))
       IN  IF Decodable(tree[f].content)
           THEN /\ total_lines' = total_lines + Len(ReadLinesOf(tree[f].content))
                /\ handles' = handles \ {f}
                /\ files' = Tail(files)
                /\ pc' = "file"
                /\ UNCHANGED err
           ELSE Raise("decode") /\ UNCHANGED <<total_lines, files, handles>>
    /\ UNCHANGED <<util, run, first, out, dumperIn, dropped, dumperVars,
                   tree, stack, root, go_files_count, result>>

\* line 13-14 and the end of the with block, which closes f either way
ReadLines ==
    /\ util = "counter" /\ pc = "read"
    /\ LET f == PathJoin(root, Head(files))
       IN  /\ handles' = handles \ {f}
           /\ IF Decodable(tree[f].content)
              THEN /\ total_lines' = total_lines + Len(ReadLinesOf(tree[f].content))
                   /\ files' = Tail(files)
                   /\ pc' = "file"
                   /\ UNCHANGED err
              ELSE Raise("decode") /\ UNCHANGED <<total_lines, files>>
    /\ UNCHANGED <<util, run, first, out, dumperIn, dropped, dumperVars,
                   tree, stack, root, go_files_count, result>>

\* line 16, line 19
Return ==
    /\ util = "counter" /\ pc = "return"
    /\ result' = <<go_files_count, total_lines>>
    /\ pc' = "print_files"
    /\ UNCHANGED <<util, run, first, out, err, dumperIn, dropped, dumperVars,
                   tree, stack, root, files, go_files_count, total_lines, handles>>

\* line 20
PrintTotalFiles ==
    /\ util = "counter" /\ pc = "print_files"
    /\ out' = Append(out, TotalFilesLine(result[1]))
    /\ pc' = "print_lines"
    /\ UNCHANGED <<util, run, first, err, dumperIn, dropped, dumperVars,
                   tree, counterVars>>

\* line 21
PrintTotalLines ==
    /\ util = "counter" /\ pc = "print_lines"
    /\ out' = Append(out, TotalLinesLine(result[2]))
    /\ pc' = "done"
    /\ UNCHANGED <<util, run, first, err, dumperIn, dropped, dumperVars,
                   tree, counterVars>>

CounterStep ==
    \/ StartCount
    \/ WalkNext
    \/ NextFile
    \/ OpenFile
    \/ ReadLines
    \/ Return
    \/ PrintTotalFiles
    \/ PrintTotalLines

(***************************************************************************)
(* Initial states.                                                         *)
(***************************************************************************)
ProcInit ==
    /\ run = 1
    /\ first = [out |-> <<>>, err |-> "none"]
    /\ out = <<>>
    /\ err = "none"

DumperIdle ==
    /\ conn = "none"
    /\ tables = <<>>
    /\ i = 1
    /\ fetched = <<>>
    /\ j = 1

CounterIdle ==
    /\ stack = <<>>
    /\ root = 0
    /\ files = <<>>
    /\ go_files_count = 0
    /\ total_lines = 0
    /\ handles = {}
    /\ result = <<>>

DumperInputs ==
    /\ dbfile \in {"valid", "missing", "notadb", "unopenable"}
    /\ catalog \in (IF dbfile = "valid" THEN Catalogs ELSE {<<>>})
    /\ rows \in Contents(catalog)
    /\ dropped = {}

NoDumperInputs ==
    /\ dbfile = "valid"
    /\ catalog = <<>>
    /\ rows = NoRows
    /\ dropped = {}

DumperInit ==
    /\ util = "dumper"
    /\ pc = "connect"
    /\ ProcInit
    /\ DumperInputs
    /\ DumperIdle
    /\ tree = <<>>
    /\ CounterIdle

DumperNext == DumperStep \/ ExternalDrop

SpecDumper == DumperInit /\ [][DumperNext]_vars

CounterInit ==
    /\ util = "counter"
    /\ pc = "start"
    /\ ProcInit
    /\ NoDumperInputs
    /\ DumperIdle
    /\ IsTree(tree)
    /\ CounterIdle

CounterNext == CounterStep

SpecCounter == CounterInit /\ [][CounterNext]_vars

\* The utility is started again once its first run has ended: a new process,
\* on the database or tree as the first run left it.
Rerun ==
    /\ run = 1
    /\ pc \in {"done", "failed"}
    /\ run' = 2
    /\ first' = [out |-> out, err |-> err]
    /\ pc' = (IF util = "dumper" THEN "connect" ELSE "start")
    /\ out' = <<>>
    /\ err' = "none"
    /\ conn' = "none" /\ tables' = <<>> /\ i' = 1 /\ fetched' = <<>> /\ j' = 1
    /\ stack' = <<>> /\ root' = 0 /\ files' = <<>>
    /\ go_files_count' = 0 /\ total_lines' = 0 /\ handles' = {} /\ result' = <<>>
    /\ UNCHANGED <<util, dumperIn, dropped, tree>>

TwiceInit == DumperInit \/ CounterInit

TwiceNext == DumperStep \/ CounterStep \/ Rerun

SpecTwice == TwiceInit /\ [][TwiceNext]_vars

(***************************************************************************)
(* Reading the dumper's output back.                                       *)
(***************************************************************************)
IsPrefix(s, t) == Len(s) <= Len(t) /\ SubSeq(t, 1, Len(s)) = s

Terminal == pc \in {"done", "failed"}

\* names of the catalog's entities of kind "table", in catalog order
CatalogTableNames ==
    LET hit == SelectSeq(catalog, LAMBDA e : e.type = "table")
    IN  [x \in 1..Len(hit) |-> hit[x].name]

NameLines == SelectSeq(out, LAMBDA l : l.kind = "name")

HeaderLines == SelectSeq(out, LAMBDA l : l.kind = "content")

HeaderPositions == {p \in DOMAIN out : out[p].kind = "content"}

\* the row lines that follow the content header at position p
SectionRows(p) ==
    LET q == CHOOSE q \in p..Len(out) :
                 /\ \A x \in (p + 1)..q : out[x].kind = "row"
                 /\ (q < Len(out) => out[q + 1].kind # "row")
    IN  [x \in 1..(q - p) |-> out[p + x].val]

Occurrences(s, v) == Cardinality({x \in DOMAIN s : s[x] = v})

SameRows(s, t) ==
    /\ Len(s) = Len(t)
    /\ \A v \in RowValues : Occurrences(s, v) = Occurrences(t, v)

RowLines(n) == [x \in 1..Len(rows[n]) |-> RowLine(rows[n][x])]

RECURSIVE Sections(_)
Sections(names) ==
    IF names = <<>>
    THEN <<>>
    ELSE <<BlankLine, ContentHeader(names[1])>> \o RowLines(names[1])
             \o Sections(Tail(names))

\* the listing of section 4.1: header, names, then one section per table
Listing ==
    <<TablesHeader>>
        \o [x \in 1..Len(CatalogTableNames) |-> NameLine(CatalogTableNames[x])]
        \o Sections(CatalogTableNames)

(***************************************************************************)
(* The Database Dumper's claims.                                           *)
(***************************************************************************)

\* C1: once the connection has been opened it is closed in every terminal
\* state of the run, whether the run completed or an exception ended it.
C1_ClosedOnEveryExit ==
    (Terminal /\ conn # "none") => conn = "closed"

\* C3: on a successful run the names listed are exactly the catalog's
\* entities of kind "table", each once; each has exactly one content
\* section; and each section holds exactly the rows of its own table.
C3_SuccessfulRunDumpsEveryTable ==
    pc = "done" =>
        /\ Len(NameLines) = Cardinality(TablesOf(catalog))
        /\ {NameLines[x].name : x \in DOMAIN NameLines} = TablesOf(catalog)
        /\ Len(HeaderLines) = Cardinality(TablesOf(catalog))
        /\ {HeaderLines[x].name : x \in DOMAIN HeaderLines} = TablesOf(catalog)
        /\ \A p \in HeaderPositions : SameRows(SectionRows(p), rows[out[p].name])

\* C4: at every moment the output is an initial part of the listing: the
\* header, the table names in catalog order, then the content sections in
\* catalog order, each with its own table's rows in full-scan order.
C4_OutputFollowsListing ==
    IsPrefix(out, Listing)

\* C5: the content fetch of a table that was dropped after enumeration ends
\* the run with a query error: the table's content header is out already,
\* nothing more is printed, and no step follows the failure.
C5_DroppedTableFailsRun ==
    [][/\ pc # "failed"
       /\ (pc = "select" /\ tables[i][1] \in dropped /\ pc' # "select") =>
              /\ Last(out) = ContentHeader(tables[i][1])
              /\ pc' = "failed"
              /\ err' = "query"
              /\ out' = out]_vars

\* C7: a database without entities of kind "table" yields the header line
\* "Tables in the database:" and nothing else, and the run ends normally.
C7_NoTablesHeaderOnly ==
    (dbfile \in {"valid", "missing"} /\ TablesOf(catalog) = {}) =>
        /\ pc # "failed"
        /\ IsPrefix(out, <<TablesHeader>>)
        /\ (pc = "done" => out = <<TablesHeader>>)
        /\ (pc # "done" => ENABLED DumperStep)

C7_Witness ==
    /\ pc = "done"
    /\ dbfile = "valid"
    /\ catalog # <<>>
    /\ TablesOf(catalog) = {}
    /\ out = <<TablesHeader>>

\* C8: the content section of a table with zero rows is its header alone:
\* no row line follows the header, and the run goes on to the next table.
C8_EmptyTableHeaderOnly ==
    \A p \in HeaderPositions :
        (rows[out[p].name] = <<>> /\ out[p].name \notin dropped) =>
            /\ SectionRows(p) = <<>>
            /\ (p = Len(out) => pc # "failed")

(***************************************************************************)
(* The Line Counter's claims.                                              *)
(***************************************************************************)
GoFiles ==
    {n \in DOMAIN tree : tree[n].kind = "file" /\ EndsWith(tree[n].name, GoSuffix)}

Readable(n) == tree[n].mode = "r" /\ Decodable(tree[n].content)

\* section 4.2: the terminator sequences of the text, and one more line for
\* a last line without terminator
LineCount(content) ==
    Cardinality({x \in DOMAIN content :
                    \/ content[x] = "LF"
                    \/ /\ content[x] = "CR"
                       /\ (x = Len(content) \/ content[x + 1] # "LF")})
        + (IF content # <<>> /\ Last(content) \notin {"LF", "CR"} THEN 1 ELSE 0)

RECURSIVE SumLines(_)
SumLines(S) ==
    IF S = {}
    THEN 0
    ELSE LET n == CHOOSE n \in S : TRUE
         IN  LineCount(tree[n].content) + SumLines(S \ {n})

Returned == pc \in {"print_files", "print_lines", "done"}

\* C2: when every file ending with ".go" is readable, count_go_lines returns
\* the number of such files at any depth under the root and the sum of their
\* line counts; other files and directories add nothing.
C2_CountsEveryGoFile ==
    (\A n \in GoFiles : Readable(n)) =>
        /\ pc # "failed"
        /\ (Returned => result = <<Cardinality(GoFiles), SumLines(GoFiles)>>)

\* C6: when some file ending with ".go" cannot be opened or decoded, the run
\* is aborted: count_go_lines returns no pair, neither total is printed, and
\* nothing follows the failure.
C6_UnreadableGoFileAborts ==
    (\E n \in GoFiles : ~Readable(n)) =>
        /\ pc \notin {"return", "print_files", "print_lines", "done"}
        /\ result = <<>>
        /\ out = <<>>
        /\ (pc = "failed" => ~ENABLED CounterStep)

\* C10: at most one file is open, it is the matching file being read, and
\* none is open between iterations or once count_go_lines has been left,
\* by return or by an exception.
C10_OneHandleWhileReading ==
    /\ Cardinality(handles) <= 1
    /\ handles # {} =>
           /\ pc = "read"
           /\ handles = {PathJoin(root, Head(files))}
           /\ handles \subseteq GoFiles

C10_Witness ==
    /\ pc = "failed"
    /\ err = "decode"
    /\ go_files_count = 2
    /\ total_lines > 0
    /\ handles = {}

(***************************************************************************)
(* Both utilities.                                                         *)
(***************************************************************************)

\* C9: a second run on the inputs the first run left ends as the first did,
\* with the same output, and no run changes the database file or the tree.
C9_SecondRunRepeatsFirst ==
    /\ []((run = 2 /\ Terminal) => (out = first.out /\ err = first.err))
    /\ [][UNCHANGED <<dbfile, catalog, rows, dropped, tree>>]_vars

====
